---- MODULE Spec2Model ----
(***************************************************************************)
(* A model of plugins/rplanners/rampoptimizer/ramp.cpp: Ramp,              *)
(* ParabolicCurve and ParabolicCurvesND.                                    *)
(*                                                                         *)
(* Numbers.  The code computes on Real (double).  Every formula of the     *)
(* code is dimensionally homogeneous, so a Real is modelled by the exact   *)
(* integer count of units of its own dimension: times and accelerations    *)
(* count units of epsilon/Epsilon, velocities and positions count the      *)
(* derived units.  Accelerations are drawn even, so that 0.5*a is exact,   *)
(* and initial velocities are drawn as multiples of the accelerations that *)
(* are not fuzzily zero, so that -v0/a is exact.  Rounding is not          *)
(* modelled.                                                               *)
(***************************************************************************)
EXTENDS Integers, Sequences, FiniteSets, TLC

VARIABLES
    ramp,      \* the Ramp object
    curve,     \* the ParabolicCurve object
    nd,        \* the ParabolicCurvesND object
    op,        \* the operation that acted last
    arg,       \* its argument
    pre,       \* the object as it was when the operation was called
    ret,       \* what the operation returned through its out-parameters
    aborted    \* a BOOST_ASSERT of the operation failed

vars == <<ramp, curve, nd, op, arg, pre, ret, aborted>>

(***************************************************************************)
(* ramp.h                                                                  *)
(***************************************************************************)
\* the tolerance, in model units
Epsilon == 2

Abs(x) == IF x < 0 THEN -x ELSE x

Min(x, y) == IF x < y THEN x ELSE y

Max(x, y) == IF x > y THEN x ELSE y

FuzzyZero(x, tol) == Abs(x) <= tol

FuzzyEquals(x, y, tol) == Abs(x - y) <= tol

\* 0.5*x, exact on the even numbers the accelerations are drawn from
Half(x) == x \div 2

\* x/y, exact when y divides x
Div(x, y) == IF y > 0 THEN x \div y ELSE (-x) \div (-y)

None == [none |-> TRUE]

(***************************************************************************)
(* Bounds and the sets the inputs are drawn from                           *)
(***************************************************************************)
MaxDur == 3

MaxV == 2

MaxX == 1

\* accelerations: zero, fuzzily zero, and not fuzzily zero
Accs == {-4, -2, 0, 2, 4}

Vels == {4 * k : k \in (-MaxV)..MaxV}

\* durations the BOOST_ASSERT(dur_ >= -epsilon) of Ramp accepts
Durs == (-Epsilon)..MaxDur

Poss == {5 * k : k \in 0..MaxX}

(***************************************************************************)
(* Ramp                                                                    *)
(***************************************************************************)
Ramp(v0_, a_, dur_, x0_) ==
    LET v1 == v0_ + (a_ * dur_)
        d  == dur_ * (v0_ + Half(a_) * dur_)
    IN  [v0 |-> v0_, a |-> a_, duration |-> dur_, x0 |-> x0_,
         v1 |-> v1, d |-> d, x1 |-> x0_ + d]

Ramp_EvalPos(r, t) ==
    IF t <= 0 THEN r.x0
    ELSE IF t >= r.duration THEN r.x1
    ELSE t * (r.v0 + Half(r.a) * t) + r.x0

Ramp_EvalVel(r, t) ==
    IF t <= 0 THEN r.v0
    ELSE IF t >= r.duration THEN r.v1
    ELSE r.v0 + (r.a * t)

Ramp_GetPeaks(r) ==
    IF FuzzyZero(r.a, Epsilon)
    THEN IF r.v0 > 0 THEN [bmin |-> r.x0, bmax |-> r.x1]
                     ELSE [bmin |-> r.x1, bmax |-> r.x0]
    ELSE LET b == IF r.a > 0 THEN [bmin |-> r.x0, bmax |-> r.x1]
                             ELSE [bmin |-> r.x1, bmax |-> r.x0]
             tDeflection == Div(-r.v0, r.a)
         IN  IF (tDeflection <= 0) \/ (tDeflection >= r.duration)
             THEN b
             ELSE LET xDeflection == Ramp_EvalPos(r, tDeflection)
                  IN  [bmin |-> Min(b.bmin, xDeflection),
                       bmax |-> Max(b.bmax, xDeflection)]

Ramp_UpdateDuration(r, newDuration) ==
    LET dur == IF newDuration < 0 THEN 0 ELSE newDuration
        d   == dur * (r.v0 + Half(r.a) * dur)
    IN  [r EXCEPT !.duration = dur, !.v1 = r.v0 + (r.a * dur),
                  !.d = d, !.x1 = r.x0 + d]

(***************************************************************************)
(* The Ramp on its own                                                     *)
(***************************************************************************)
RampInputs == Vels \X Accs \X Durs \X Poss

InitRamp ==
    /\ \E i \in RampInputs : ramp = Ramp(i[1], i[2], i[3], i[4])
    /\ curve = None
    /\ nd = None
    /\ op = "Ramp"
    /\ arg = None
    /\ pre = None
    /\ ret = None
    /\ aborted = FALSE

DoRampInitialize ==
    /\ \E i \in RampInputs : ramp' = Ramp(i[1], i[2], i[3], i[4])
    /\ op' = "Ramp::Initialize"
    /\ ret' = None
    /\ UNCHANGED <<curve, nd, arg, pre, aborted>>

DoRampUpdateDuration ==
    /\ \E newDuration \in Durs :
          ramp' = Ramp_UpdateDuration(ramp, newDuration)
    /\ op' = "Ramp::UpdateDuration"
    /\ ret' = None
    /\ UNCHANGED <<curve, nd, arg, pre, aborted>>

DoRampGetPeaks ==
    /\ ret' = Ramp_GetPeaks(ramp)
    /\ op' = "Ramp::GetPeaks"
    /\ UNCHANGED <<ramp, curve, nd, arg, pre, aborted>>

NextRamp == DoRampInitialize \/ DoRampUpdateDuration \/ DoRampGetPeaks

SpecRamp == InitRamp /\ [][NextRamp]_vars

\* the times of [0, duration] the model evaluates at; the stationary time
\* -v0/a is one of them whenever it lies inside
Times(r) == 0..r.duration

\* C1: the interval Ramp::GetPeaks returns bounds the motion and is tight:
\* bmin <= EvalPos(t) <= bmax for every t in [0, duration], bmin <= bmax, and
\* EvalPos takes both values on [0, duration].
C1_PeaksBoundAndTight ==
    (op = "Ramp::GetPeaks" /\ ramp.duration >= 0) =>
        /\ ret.bmin <= ret.bmax
        /\ \A t \in Times(ramp) :
              ret.bmin <= Ramp_EvalPos(ramp, t) /\ Ramp_EvalPos(ramp, t) <= ret.bmax
        /\ \E t \in Times(ramp) : Ramp_EvalPos(ramp, t) = ret.bmin
        /\ \E t \in Times(ramp) : Ramp_EvalPos(ramp, t) = ret.bmax

(***************************************************************************)
(* ParabolicCurve                                                          *)
(***************************************************************************)
MaxRamps == 3

\* how many ramps a caller hands over at once
ArgLens == {1, 2}

\* what the callers draw the ramps of a curve from
CurveAccs == {2}

CurveDurs == {-1, 0, 2, 3}

CurveVels == {4}

CurvePoss == {0, 5}

\* the default-constructed curve and the curve after Reset
ParabolicCurve_Reset ==
    [ramps |-> <<>>, switchpointsList |-> <<>>,
     x0 |-> 0, x1 |-> 0, duration |-> 0, d |-> 0, v0 |-> 0, v1 |-> 0]

IsEmpty(c) == c.ramps = <<>>

RECURSIVE RebaseRamps(_, _)
\* the loop of SetInitialValue: each ramp's x0 becomes the running position
RebaseRamps(ramps, newx0) ==
    IF ramps = <<>> THEN <<>>
    ELSE <<[Head(ramps) EXCEPT !.x0 = newx0]>>
         \o RebaseRamps(Tail(ramps), newx0 + Head(ramps).d)

ParabolicCurve_SetInitialValue(c, newx0) ==
    [c EXCEPT !.x0 = newx0,
              !.ramps = RebaseRamps(c.ramps, newx0),
              !.x1 = newx0 + c.d]

RECURSIVE PushRampsByDuration(_, _)
\* a push loop that records each ramp's own duration as its switch point, not
\* the accumulated time
PushRampsByDuration(c, rampsIn) ==
    IF rampsIn = <<>> THEN c
    ELSE LET r == Head(rampsIn)
         IN  PushRampsByDuration(
                 [c EXCEPT !.ramps = Append(c.ramps, r),
                           !.d = c.d + r.d,
                           !.duration = c.duration + r.duration,
                           !.switchpointsList =
                               Append(c.switchpointsList, r.duration)],
                 Tail(rampsIn))

RECURSIVE PushRamps(_, _)
\* the loop that pushes ramps one by one, accumulating d, duration and the
\* switch points
PushRamps(c, rampsIn) ==
    IF rampsIn = <<>> THEN c
    ELSE LET r == Head(rampsIn)
         IN  PushRamps([c EXCEPT !.ramps = Append(c.ramps, r),
                                 !.d = c.d + r.d,
                                 !.duration = c.duration + r.duration,
                                 !.switchpointsList =
                                     Append(c.switchpointsList, c.duration + r.duration)],
                       Tail(rampsIn))

\* the constructor, from a non-empty rampsIn
ParabolicCurve(rampsIn) ==
    LET c0 == [ramps |-> <<>>, switchpointsList |-> <<0>>,
               x0 |-> 0, x1 |-> 0, duration |-> 0, d |-> 0, v0 |-> 0, v1 |-> 0]
        c1 == PushRamps(c0, rampsIn)
        c2 == [c1 EXCEPT !.v0 = rampsIn[1].v0, !.v1 = rampsIn[Len(rampsIn)].v1]
    IN  ParabolicCurve_SetInitialValue(c2, rampsIn[1].x0)

ParabolicCurve_Initialize(c, rampsIn) ==
    LET c0 == [c EXCEPT !.ramps = <<>>, !.switchpointsList = <<0>>,
                        !.d = 0, !.duration = 0,
                        !.v0 = rampsIn[1].v0, !.v1 = rampsIn[Len(rampsIn)].v1]
        c1 == PushRamps(c0, rampsIn)
    IN  ParabolicCurve_SetInitialValue(c1, rampsIn[1].x0)

\* Append(curve), for a non-empty argument
ParabolicCurve_Append(c, arg_) ==
    LET c0 == IF Len(c.ramps) = 0
              THEN [c EXCEPT !.d = 0, !.duration = 0,
                             !.switchpointsList = Append(c.switchpointsList, 0),
                             !.x0 = arg_.ramps[1].x0]
              ELSE c
        c1 == PushRamps(c0, arg_.ramps)
        c2 == [c1 EXCEPT !.v1 = arg_.v1]
    IN  ParabolicCurve_SetInitialValue(c2, c2.x0)

RECURSIVE ScanPastEqual(_, _, _)
\* a scan that also steps over a switch point equal to t
ScanPastEqual(sw, t, it) ==
    IF it <= Len(sw) /\ t >= sw[it] THEN ScanPastEqual(sw, t, it + 1) ELSE it

RECURSIVE ScanSwitchpoints(_, _, _)
\* the while loop of FindRampIndex: the position the iterator stops at, 1 for
\* begin() and Len + 1 for end()
ScanSwitchpoints(sw, t, it) ==
    IF it <= Len(sw) /\ t > sw[it] THEN ScanSwitchpoints(sw, t, it + 1) ELSE it

\* FindRampIndex(t) for -epsilon <= t <= duration + epsilon on a curve that has
\* ramps: failed is the BOOST_ASSERT after the loop
ParabolicCurve_FindRampIndex(c, t) ==
    IF t < Epsilon
    THEN [index |-> 0, remainder |-> 0, failed |-> FALSE]
    ELSE IF t > c.duration - Epsilon
    THEN [index |-> Len(c.ramps) - 1,
          remainder |-> c.ramps[Len(c.ramps)].duration, failed |-> FALSE]
    ELSE LET it    == ScanSwitchpoints(c.switchpointsList, t, 1)
             index == it - 1
         IN  IF ~(index < Len(c.switchpointsList))
             THEN [index |-> index, remainder |-> 0, failed |-> TRUE]
             ELSE [index |-> index - 1,
                   remainder |-> t - c.switchpointsList[it - 1],
                   failed |-> FALSE]

ParabolicCurve_EvalVel(c, t) ==
    IF t <= 0 THEN c.v0
    ELSE IF t >= c.duration THEN c.v1
    ELSE LET f == ParabolicCurve_FindRampIndex(c, t)
         IN  Ramp_EvalVel(c.ramps[f.index + 1], f.remainder)

ParabolicCurve_EvalPos(c, t) ==
    IF t <= 0 THEN c.x0
    ELSE IF t >= c.duration THEN c.x1
    ELSE LET f == ParabolicCurve_FindRampIndex(c, t)
         IN  Ramp_EvalPos(c.ramps[f.index + 1], f.remainder)

RECURSIVE FoldPeaks(_, _)
\* the loop of GetPeaks over the ramps; b starts at (inf, -inf), here None
FoldPeaks(ramps, b) ==
    IF ramps = <<>> THEN b
    ELSE LET p == Ramp_GetPeaks(Head(ramps))
         IN  FoldPeaks(Tail(ramps),
                       IF b = None THEN p
                       ELSE [bmin |-> IF p.bmin < b.bmin THEN p.bmin ELSE b.bmin,
                             bmax |-> IF p.bmax > b.bmax THEN p.bmax ELSE b.bmax])

ParabolicCurve_GetPeaks(c) == FoldPeaks(c.ramps, None)

(***************************************************************************)
(* The callers of ParabolicCurve.  A caller builds the ramps of a curve    *)
(* one after the other, each starting at the position and the velocity the *)
(* one before ends with, and appends a curve that starts where the         *)
(* receiver ends (ramp.cpp:158).                                           *)
(***************************************************************************)
RECURSIVE RampChain(_, _, _)
RampChain(v0_, x0_, shapes) ==
    IF shapes = <<>> THEN <<>>
    ELSE LET r == Ramp(v0_, shapes[1][1], shapes[1][2], x0_)
         IN  <<r>> \o RampChain(r.v1, r.x1, Tail(shapes))

Shapes == CurveAccs \X CurveDurs

ShapeSeqs(lens) == UNION {[1..k -> Shapes] : k \in lens}

Chains(lens) ==
    {RampChain(v, x, s) : v \in CurveVels, x \in CurvePoss, s \in ShapeSeqs(lens)}

ChainsFrom(v, x, lens) == {RampChain(v, x, s) : s \in ShapeSeqs(lens)}

\* the object after either constructor: the default one, or the one from ramps
InitCurve ==
    /\ \/ curve = ParabolicCurve_Reset
       \/ \E rampsIn \in Chains(ArgLens) : curve = ParabolicCurve(rampsIn)
    /\ ramp = None
    /\ nd = None
    /\ op = "ParabolicCurve::ParabolicCurve"
    /\ arg = None
    /\ pre = None
    /\ ret = None
    /\ aborted = FALSE

DoCurveInitialize ==
    /\ \E rampsIn \in Chains(ArgLens) :
          curve' = ParabolicCurve_Initialize(curve, rampsIn)
    /\ op' = "ParabolicCurve::Initialize"
    /\ arg' = None
    /\ pre' = None
    /\ UNCHANGED <<ramp, nd, ret, aborted>>

\* arg and pre keep the argument and the receiver of an Append
DoCurveAppend ==
    /\ Len(curve.ramps) < MaxRamps
    /\ \E rampsIn \in (IF IsEmpty(curve)
                       THEN Chains(ArgLens)
                       ELSE ChainsFrom(curve.v1, curve.x1, ArgLens)) :
          /\ Len(curve.ramps) + Len(rampsIn) <= MaxRamps
          /\ arg' = ParabolicCurve(rampsIn)
          /\ curve' = ParabolicCurve_Append(curve, arg')
    /\ op' = "ParabolicCurve::Append"
    /\ pre' = curve
    /\ UNCHANGED <<ramp, nd, ret, aborted>>

DoCurveReset ==
    /\ curve' = ParabolicCurve_Reset
    /\ op' = "ParabolicCurve::Reset"
    /\ arg' = None
    /\ pre' = None
    /\ UNCHANGED <<ramp, nd, ret, aborted>>

DoCurveSetInitialValue ==
    /\ \E newx0 \in CurvePoss : curve' = ParabolicCurve_SetInitialValue(curve, newx0)
    /\ op' = "ParabolicCurve::SetInitialValue"
    /\ arg' = None
    /\ pre' = None
    /\ UNCHANGED <<ramp, nd, ret, aborted>>

NextCurve ==
    \/ DoCurveInitialize
    \/ DoCurveAppend
    \/ DoCurveReset
    \/ DoCurveSetInitialValue

SpecCurve == InitCurve /\ [][NextCurve]_vars

(***************************************************************************)
(* The lookups of a ParabolicCurve, on every curve the constructor builds  *)
(* from up to MaxRamps ramps                                               *)
(***************************************************************************)
InitLookup ==
    /\ \E rampsIn \in Chains(1..MaxRamps) : curve = ParabolicCurve(rampsIn)
    /\ ramp = None
    /\ nd = None
    /\ op = "ParabolicCurve::ParabolicCurve"
    /\ arg = None
    /\ pre = None
    /\ ret = None
    /\ aborted = FALSE

\* the times the BOOST_ASSERTs of the lookups accept
LookupTimes(c) == (-Epsilon)..(c.duration + Epsilon)

DoCurveFindRampIndex ==
    /\ ~aborted
    /\ \E t \in LookupTimes(curve) :
          LET f == ParabolicCurve_FindRampIndex(curve, t)
          IN  /\ ret' = [t |-> t, index |-> f.index, remainder |-> f.remainder]
              /\ aborted' = f.failed
    /\ op' = "ParabolicCurve::FindRampIndex"
    /\ UNCHANGED <<ramp, curve, nd, arg, pre>>

DoCurveEvalPos ==
    /\ ~aborted
    /\ \E t \in LookupTimes(curve) :
          ret' = [t |-> t, x |-> ParabolicCurve_EvalPos(curve, t)]
    /\ op' = "ParabolicCurve::EvalPos"
    /\ UNCHANGED <<ramp, curve, nd, arg, pre, aborted>>

DoCurveEvalVel ==
    /\ ~aborted
    /\ \E t \in LookupTimes(curve) :
          ret' = [t |-> t, v |-> ParabolicCurve_EvalVel(curve, t)]
    /\ op' = "ParabolicCurve::EvalVel"
    /\ UNCHANGED <<ramp, curve, nd, arg, pre, aborted>>

NextLookup == DoCurveFindRampIndex \/ DoCurveEvalPos \/ DoCurveEvalVel

SpecLookup == InitLookup /\ [][NextLookup]_vars

\* C2: every ramp of the curve keeps its derived fields consistent with its
\* given fields: x1 = x0 + d and v1 = v0 + a*duration.
C2_RampsConsistent ==
    \A i \in 1..Len(curve.ramps) :
        /\ curve.ramps[i].x1 = curve.ramps[i].x0 + curve.ramps[i].d
        /\ curve.ramps[i].v1 =
               curve.ramps[i].v0 + curve.ramps[i].a * curve.ramps[i].duration

\* C3: the switch-point table of a curve that has ramps has ramps.size()+1
\* entries, starts at 0, is non-decreasing, steps by the ramps' durations and
\* ends at the curve's duration.
C3_SwitchpointsNonDecreasing ==
    ~IsEmpty(curve) =>
        LET sw == curve.switchpointsList
        IN  /\ Len(sw) = Len(curve.ramps) + 1
            /\ sw[1] = 0
            /\ \A k \in 1..Len(curve.ramps) :
                  /\ sw[k + 1] >= sw[k]
                  /\ sw[k + 1] - sw[k] = curve.ramps[k].duration
            /\ sw[Len(sw)] = curve.duration

\* C3, amended: the switch-point table of a curve that has ramps has
\* ramps.size()+1 entries, starts at 0, steps by the ramps' durations (so it
\* does not decrease across a ramp whose duration is >= 0, and decreases by at
\* most epsilon across a ramp whose duration is negative within tolerance) and
\* ends at the curve's duration.
C3_SwitchpointsTable ==
    ~IsEmpty(curve) =>
        LET sw == curve.switchpointsList
        IN  /\ Len(sw) = Len(curve.ramps) + 1
            /\ sw[1] = 0
            /\ \A k \in 1..Len(curve.ramps) :
                  /\ sw[k + 1] - sw[k] = curve.ramps[k].duration
                  /\ sw[k + 1] >= sw[k] - Epsilon
                  /\ (curve.ramps[k].duration >= 0 => sw[k + 1] >= sw[k])
            /\ sw[Len(sw)] = curve.duration

\* an Append onto a curve that has ramps gave a table of MaxRamps + 1 entries
\* that decreases across a ramp of negative duration
C3_Witness ==
    /\ op = "ParabolicCurve::Append"
    /\ ~IsEmpty(pre)
    /\ Len(curve.ramps) = MaxRamps
    /\ \E k \in 1..Len(curve.ramps) :
          curve.switchpointsList[k + 1] < curve.switchpointsList[k]

\* C5: Append onto an empty curve adopts the argument outright: every field of
\* the curve equals the argument's, and EvalVel(0) is the argument's initial
\* velocity.
C5_AppendOntoEmptyAdopts ==
    (op = "ParabolicCurve::Append" /\ IsEmpty(pre)) =>
        /\ curve.ramps = arg.ramps
        /\ curve.switchpointsList = arg.switchpointsList
        /\ curve.x0 = arg.x0
        /\ curve.x1 = arg.x1
        /\ curve.v0 = arg.v0
        /\ curve.v1 = arg.v1
        /\ curve.d = arg.d
        /\ curve.duration = arg.duration
        /\ ParabolicCurve_EvalVel(curve, 0) = arg.ramps[1].v0

\* the case C9 is about: FindRampIndex(t) returned, with
\* epsilon <= t <= duration - epsilon
C9_Case ==
    /\ op = "ParabolicCurve::FindRampIndex"
    /\ ret.t >= Epsilon
    /\ ret.t <= curve.duration - Epsilon

\* C9: FindRampIndex(t) returns the index i with s_i <= t < s_{i+1} and
\* remainder = t - s_i, so 0 <= index < ramps.size() and
\* 0 <= remainder <= ramps[index].duration; for t an interior switch point s_k
\* it returns (k, 0).
C9_FirstSwitchpointAbove ==
    C9_Case =>
        LET sw == curve.switchpointsList
            i  == ret.index + 1
        IN  /\ ~aborted
            /\ 0 <= ret.index /\ ret.index < Len(curve.ramps)
            /\ sw[i] <= ret.t /\ ret.t < sw[i + 1]
            /\ ret.remainder = ret.t - sw[i]
            /\ 0 <= ret.remainder /\ ret.remainder <= curve.ramps[i].duration
            /\ \A k \in 2..Len(curve.ramps) :
                  (sw[k] = ret.t /\ sw[k + 1] > ret.t) =>
                      (ret.index = k - 1 /\ ret.remainder = 0)

\* C9, amended: FindRampIndex(t) locates the first switch point at or above
\* t: it returns the least index i with s_i < t <= s_{i+1} and
\* remainder = t - s_i, so 0 <= index < ramps.size() and
\* 0 < remainder <= ramps[index].duration; for t an interior switch point s_k
\* with s_{k-1} < s_k it returns (k-1, ramps[k-1].duration).
C9_FirstSwitchpointAtOrAbove ==
    C9_Case =>
        LET sw == curve.switchpointsList
            i  == ret.index + 1
        IN  /\ ~aborted
            /\ 0 <= ret.index /\ ret.index < Len(curve.ramps)
            /\ sw[i] < ret.t /\ ret.t <= sw[i + 1]
            /\ \A m \in 1..i : sw[m] < ret.t
            /\ ret.remainder = ret.t - sw[i]
            /\ 0 < ret.remainder /\ ret.remainder <= curve.ramps[i].duration
            /\ \A k \in 2..Len(curve.ramps) :
                  (sw[k] = ret.t /\ \A m \in 1..(k - 1) : sw[m] < ret.t) =>
                      (ret.index = k - 2
                       /\ ret.remainder = curve.ramps[k - 1].duration)

\* FindRampIndex was asked for an interior switch point and returned the ramp
\* that ends there
C9_Witness ==
    /\ C9_Case
    /\ \E k \in 2..Len(curve.ramps) :
          /\ curve.switchpointsList[k] = ret.t
          /\ curve.switchpointsList[k - 1] < ret.t
          /\ ret.index = k - 2
          /\ ret.remainder = curve.ramps[k - 1].duration

(***************************************************************************)
(* ParabolicCurvesND                                                       *)
(***************************************************************************)
MaxDof == 2

\* the aggregate vectors grow with every Initialize; the callers stop at this
\* length
MaxVect == 3

\* the default-constructed object and the object after Reset
ParabolicCurvesND_Reset ==
    [ndof |-> 0, duration |-> 0,
     x0Vect |-> <<>>, x1Vect |-> <<>>, dVect |-> <<>>, v1Vect |-> <<>>,
     v0Vect |-> <<>>, switchpointsList |-> <<>>, curves |-> <<>>,
     constraintchecked |-> 0, modified |-> 0]

NDIsEmpty(n) == n.curves = <<>>

RECURSIVE CheckDurations(_, _, _)
\* the loop over curvesIn[k..]: BOOST_ASSERT(FuzzyEquals(it->duration, minDur,
\* epsilon)), then minDur = Min(minDur, it->duration)
CheckDurations(curvesIn, k, minDur) ==
    IF k > Len(curvesIn) THEN [failed |-> FALSE, minDur |-> minDur]
    ELSE IF ~FuzzyEquals(curvesIn[k].duration, minDur, Epsilon)
    THEN [failed |-> TRUE, minDur |-> minDur]
    ELSE CheckDurations(curvesIn, k + 1, Min(minDur, curvesIn[k].duration))

\* std::lower_bound on a sorted table: the first position whose entry is not
\* less than value, Len + 1 for end()
LowerBound(table, value) ==
    Cardinality({k \in 1..Len(table) : table[k] < value}) + 1

InsertAt(table, it, value) ==
    SubSeq(table, 1, it - 1) \o <<value>> \o SubSeq(table, it, Len(table))

RECURSIVE MergePoints(_, _, _, _)
\* the inner loop, over j = 1 .. size-2 of one axis's table.  Reading *it at
\* end() is undefined: endEquals is what FuzzyEquals then answers.
MergePoints(table, points, j, endEquals) ==
    IF j = Len(points) - 1 THEN table
    ELSE LET value == points[j + 1]
             it    == LowerBound(table, value)
             equal == IF it > Len(table) THEN endEquals
                      ELSE FuzzyEquals(value, table[it], Epsilon)
         IN  MergePoints(IF ~equal THEN InsertAt(table, it, value) ELSE table,
                         points, j + 1, endEquals)

RECURSIVE MergeAxes(_, _, _, _)
\* the outer loop, over the axes i = 0 .. ndof-1
MergeAxes(table, curves, i, endEquals) ==
    IF i > Len(curves) THEN table
    ELSE MergeAxes(MergePoints(table, curves[i].switchpointsList, 1, endEquals),
                   curves, i + 1, endEquals)

Field(curves, f) == [i \in 1..Len(curves) |-> curves[i][f]]

\* the constructor, from a non-empty curvesIn of curves that have ramps
ParabolicCurvesND(curvesIn, endEquals) ==
    LET chk == CheckDurations(curvesIn, 2, curvesIn[1].duration)
    IN  [failed |-> chk.failed,
         nd |-> [ndof |-> Len(curvesIn), duration |-> chk.minDur,
                 curves |-> curvesIn,
                 x0Vect |-> Field(curvesIn, "x0"),
                 x1Vect |-> Field(curvesIn, "x1"),
                 v0Vect |-> Field(curvesIn, "v0"),
                 v1Vect |-> Field(curvesIn, "v1"),
                 dVect |-> Field(curvesIn, "d"),
                 switchpointsList |->
                     MergeAxes(curvesIn[1].switchpointsList, curvesIn, 1, endEquals),
                 constraintchecked |-> 0, modified |-> 0]]

ParabolicCurvesND_Initialize(n, curvesIn, endEquals) ==
    LET chk == CheckDurations(curvesIn, 2, curvesIn[1].duration)
    IN  [failed |-> chk.failed,
         nd |-> [ndof |-> Len(curvesIn), duration |-> chk.minDur,
                 curves |-> curvesIn,
                 x0Vect |-> n.x0Vect \o Field(curvesIn, "x0"),
                 x1Vect |-> n.x1Vect \o Field(curvesIn, "x1"),
                 v0Vect |-> n.v0Vect \o Field(curvesIn, "v0"),
                 v1Vect |-> n.v1Vect \o Field(curvesIn, "v1"),
                 dVect |-> n.dVect \o Field(curvesIn, "d"),
                 switchpointsList |->
                     MergeAxes(curvesIn[1].switchpointsList, curvesIn, 1, endEquals),
                 constraintchecked |-> 0, modified |-> 0]]

Shift(table, by) == [k \in 1..Len(table) |-> table[k] + by]

\* Append(curvesnd), for a non-empty argument; failed is
\* BOOST_ASSERT(curvesnd.ndof == ndof)
ParabolicCurvesND_Append(n, curvesnd) ==
    IF n.curves = <<>>
    THEN [failed |-> FALSE,
          nd |-> [n EXCEPT !.curves = curvesnd.curves,
                           !.ndof = Len(curvesnd.curves),
                           !.duration = curvesnd.duration,
                           !.x0Vect = curvesnd.x0Vect,
                           !.x1Vect = curvesnd.x1Vect,
                           !.dVect = curvesnd.dVect,
                           !.v0Vect = curvesnd.v0Vect,
                           !.v1Vect = curvesnd.v1Vect,
                           !.switchpointsList = curvesnd.switchpointsList]]
    ELSE IF curvesnd.ndof # n.ndof THEN [failed |-> TRUE, nd |-> n]
    ELSE LET originalDur == n.duration
             curves == [i \in 1..n.ndof |->
                           ParabolicCurve_Append(n.curves[i], curvesnd.curves[i])]
         IN  [failed |-> FALSE,
              nd |-> [n EXCEPT
                  !.duration = n.duration + curvesnd.duration,
                  !.curves = curves,
                  !.v1Vect = [i \in 1..Len(n.v1Vect) |->
                                 IF i <= n.ndof THEN curvesnd.curves[i].v1
                                 ELSE n.v1Vect[i]],
                  !.x1Vect = [i \in 1..Len(n.x1Vect) |->
                                 IF i <= n.ndof THEN curves[i].x1 ELSE n.x1Vect[i]],
                  !.dVect = [i \in 1..Len(n.dVect) |->
                                IF i <= n.ndof THEN n.dVect[i] + curvesnd.curves[i].d
                                ELSE n.dVect[i]],
                  !.switchpointsList =
                      n.switchpointsList \o Shift(curvesnd.switchpointsList, originalDur)]]

\* EvalPos(t, xVect), for -epsilon <= t <= duration + epsilon
ParabolicCurvesND_EvalPos(n, t) ==
    IF t <= 0 THEN n.x0Vect
    ELSE IF t > n.duration THEN n.x1Vect
    ELSE [i \in 1..n.ndof |-> ParabolicCurve_EvalPos(n.curves[i], t)]

ParabolicCurvesND_EvalVel(n, t) ==
    IF t <= 0 THEN n.v0Vect
    ELSE IF t >= n.duration THEN n.v1Vect
    ELSE [i \in 1..n.ndof |-> ParabolicCurve_EvalVel(n.curves[i], t)]

\* GetPeaks(bminVect, bmaxVect): bminVect is resized (twice), bmaxVect is not.
\* A write of bmaxVect[i] at or above its size is outside the vector:
\* outOfRange holds those i, and the vector keeps its size.
ParabolicCurvesND_GetPeaks(n, bminVect, bmaxVect) ==
    LET peaks == [i \in 1..n.ndof |-> ParabolicCurve_GetPeaks(n.curves[i])]
    IN  [bminVect |-> [i \in 1..n.ndof |-> peaks[i].bmin],
         bmaxVect |-> [i \in 1..Len(bmaxVect) |->
                          IF i <= n.ndof THEN peaks[i].bmax ELSE bmaxVect[i]],
         outOfRange |-> {i \in 1..n.ndof : i > Len(bmaxVect)}]

(***************************************************************************)
(* The callers of ParabolicCurvesND.  The axes' curves are built as above, *)
(* from ramps of non-negative duration; an appended object continues every *)
(* axis where the receiver's axis ends and has the receiver's ndof.        *)
(***************************************************************************)
NdDurs == {1, 4, 5}

NdPoss == {0}

NdShapeSeqs == UNION {[1..k -> CurveAccs \X NdDurs] : k \in ArgLens}

NdCurves ==
    {ParabolicCurve(RampChain(v, x, s)) :
        v \in CurveVels, x \in NdPoss, s \in NdShapeSeqs}

NdInputs == UNION {[1..n -> NdCurves] : n \in 1..MaxDof}

\* the curves that continue the axes of n
NdContinuations(n) ==
    {c \in [1..n.ndof -> NdShapeSeqs] :
        \A i \in 1..n.ndof : Len(n.curves[i].ramps) + Len(c[i]) <= MaxRamps}

NdContinue(n, c) ==
    [i \in 1..n.ndof |->
        ParabolicCurve(RampChain(n.curves[i].v1, n.curves[i].x1, c[i]))]

InitND ==
    /\ \/ nd = ParabolicCurvesND_Reset
       \/ \E curvesIn \in NdInputs, endEquals \in BOOLEAN :
             LET r == ParabolicCurvesND(curvesIn, endEquals)
             IN  ~r.failed /\ nd = r.nd
    /\ ramp = None
    /\ curve = None
    /\ op = "ParabolicCurvesND::ParabolicCurvesND"
    /\ arg = None
    /\ pre = None
    /\ ret = None
    /\ aborted = FALSE

\* Initialize(curvesIn) with curvesIn drawn from inputs; arg keeps curvesIn.
\* A failed BOOST_ASSERT ends the process, and the object with it.
NDInitializeFrom(inputs) ==
    /\ ~aborted
    /\ \E curvesIn \in inputs, endEquals \in BOOLEAN :
          LET r == ParabolicCurvesND_Initialize(nd, curvesIn, endEquals)
          IN  /\ Len(nd.x0Vect) + Len(curvesIn) <= MaxVect
              /\ aborted' = r.failed
              /\ nd' = IF r.failed THEN None ELSE r.nd
              /\ arg' = curvesIn
    /\ op' = "ParabolicCurvesND::Initialize"
    /\ pre' = None
    /\ UNCHANGED <<ramp, curve, ret>>

\* ParabolicCurvesND(curvesIn), likewise
NDConstructFrom(inputs) ==
    /\ ~aborted
    /\ \E curvesIn \in inputs, endEquals \in BOOLEAN :
          LET r == ParabolicCurvesND(curvesIn, endEquals)
          IN  /\ aborted' = r.failed
              /\ nd' = IF r.failed THEN None ELSE r.nd
              /\ arg' = curvesIn
    /\ op' = "ParabolicCurvesND::ParabolicCurvesND"
    /\ pre' = None
    /\ UNCHANGED <<ramp, curve, ret>>

DoNDInitialize ==
    /\ ~aborted
    /\ NDInitializeFrom(NdInputs)

\* arg and pre keep the argument and the receiver of an Append
DoNDAppend ==
    /\ ~aborted
    /\ \E endEquals \in BOOLEAN :
          \E curvesIn \in (IF NDIsEmpty(nd) THEN NdInputs
                           ELSE {NdContinue(nd, c) : c \in NdContinuations(nd)}) :
             LET b == ParabolicCurvesND(curvesIn, endEquals)
                 r == ParabolicCurvesND_Append(nd, b.nd)
             IN  /\ ~b.failed
                 /\ arg' = b.nd
                 /\ aborted' = r.failed
                 /\ nd' = r.nd
    /\ op' = "ParabolicCurvesND::Append"
    /\ pre' = nd
    /\ UNCHANGED <<ramp, curve, ret>>

DoNDReset ==
    /\ ~aborted
    /\ nd' = ParabolicCurvesND_Reset
    /\ op' = "ParabolicCurvesND::Reset"
    /\ arg' = None
    /\ pre' = None
    /\ UNCHANGED <<ramp, curve, ret, aborted>>

NextND == DoNDInitialize \/ DoNDAppend \/ DoNDReset

SpecND == InitND /\ [][NextND]_vars

Range(f) == {f[k] : k \in DOMAIN f}

Ascending(table) == \A k \in 1..(Len(table) - 1) : table[k] < table[k + 1]

\* C4: every aggregate vector has exactly ndof entries, its i-th entry is the
\* field of curves[i], and EvalPos/EvalVel at the time boundaries return the
\* curves' endpoint values.
C4_AggregatesMatchCurves ==
    ~aborted =>
        /\ \A f \in {"x0", "x1", "v0", "v1", "d"} :
              LET vect == nd[f \o "Vect"]
              IN  /\ Len(vect) = nd.ndof
                  /\ \A i \in 1..nd.ndof : vect[i] = nd.curves[i][f]
        /\ ParabolicCurvesND_EvalPos(nd, 0) = Field(nd.curves, "x0")
        /\ ParabolicCurvesND_EvalPos(nd, nd.duration + 1) = Field(nd.curves, "x1")
        /\ ParabolicCurvesND_EvalVel(nd, 0) = Field(nd.curves, "v0")
        /\ ParabolicCurvesND_EvalVel(nd, nd.duration) = Field(nd.curves, "v1")

\* C6: right after construction or Initialize the merged table is sorted
\* ascending, has an entry within epsilon of every axis's switch points, and
\* has no two entries within epsilon of each other.
C6_MergedTableDeduplicated ==
    (/\ op \in {"ParabolicCurvesND::ParabolicCurvesND", "ParabolicCurvesND::Initialize"}
     /\ ~aborted
     /\ ~NDIsEmpty(nd)) =>
        LET sw == nd.switchpointsList
        IN  /\ \A k \in 1..(Len(sw) - 1) : sw[k] <= sw[k + 1]
            /\ \A i \in 1..nd.ndof :
                  \A j \in 1..Len(nd.curves[i].switchpointsList) :
                     \E k \in 1..Len(sw) :
                        FuzzyEquals(nd.curves[i].switchpointsList[j], sw[k], Epsilon)
            /\ \A k, l \in 1..Len(sw) :
                  k # l => ~FuzzyEquals(sw[k], sw[l], Epsilon)

\* C7: Append of a non-empty B onto a non-empty A, at both levels: the
\* duration is A.duration + B.duration, and the table is the union of A's
\* table and B's table shifted by A's duration, each time once, ascending.
C7_AppendConcatenatesTime ==
    (op = "ParabolicCurvesND::Append" /\ ~aborted /\ ~NDIsEmpty(pre)) =>
        /\ nd.duration = pre.duration + arg.duration
        /\ Ascending(nd.switchpointsList)
        /\ Range(nd.switchpointsList) =
               Range(pre.switchpointsList)
                   \cup Range(Shift(arg.switchpointsList, pre.duration))
        /\ \A i \in 1..nd.ndof :
              LET c == nd.curves[i]
                  a == pre.curves[i]
                  b == arg.curves[i]
              IN  /\ c.duration = a.duration + b.duration
                  /\ Ascending(c.switchpointsList)
                  /\ Range(c.switchpointsList) =
                         Range(a.switchpointsList)
                             \cup Range(Shift(b.switchpointsList, a.duration))

(***************************************************************************)
(* Building a ParabolicCurvesND once, with the constructor or with         *)
(* Initialize on a default-constructed object, from curves whose ramps all *)
(* last longer than epsilon: from up to MaxDof curves of one or two ramps  *)
(* (SpecNDBuild), or from up to MaxAxes curves of one ramp (SpecNDCheck)   *)
(***************************************************************************)
MaxAxes == 3

MaxBuildDur == 7

BuildDurs == (Epsilon + 1)..MaxBuildDur

BuildCurves(lens) ==
    {ParabolicCurve(RampChain(v, x, s)) :
        v \in CurveVels, x \in NdPoss,
        s \in UNION {[1..k -> CurveAccs \X BuildDurs] : k \in lens}}

BuildInputs == UNION {[1..n -> BuildCurves(ArgLens)] : n \in 1..MaxDof}

CheckInputs == UNION {[1..n -> BuildCurves({1})] : n \in 1..MaxAxes}

InitNDBuild ==
    /\ nd = ParabolicCurvesND_Reset
    /\ ramp = None
    /\ curve = None
    /\ op = "ParabolicCurvesND::ParabolicCurvesND()"
    /\ arg = None
    /\ pre = None
    /\ ret = None
    /\ aborted = FALSE

DoNDBuildConstruct ==
    /\ op = "ParabolicCurvesND::ParabolicCurvesND()"
    /\ NDConstructFrom(BuildInputs)

DoNDBuildInitialize ==
    /\ op = "ParabolicCurvesND::ParabolicCurvesND()"
    /\ NDInitializeFrom(BuildInputs)

NextNDBuild == DoNDBuildConstruct \/ DoNDBuildInitialize

SpecNDBuild == InitNDBuild /\ [][NextNDBuild]_vars

DoNDCheckConstruct ==
    /\ op = "ParabolicCurvesND::ParabolicCurvesND()"
    /\ NDConstructFrom(CheckInputs)

DoNDCheckInitialize ==
    /\ op = "ParabolicCurvesND::ParabolicCurvesND()"
    /\ NDInitializeFrom(CheckInputs)

NextNDCheck == DoNDCheckConstruct \/ DoNDCheckInitialize

SpecNDCheck == InitNDBuild /\ [][NextNDCheck]_vars

\* C8: construction (and Initialize) fails exactly when some curve's duration
\* differs from the first curve's duration by more than epsilon.
C8_FailsIffFarFromFirst ==
    op \in {"ParabolicCurvesND::ParabolicCurvesND", "ParabolicCurvesND::Initialize"} =>
        (aborted <=>
            \E k \in 1..Len(arg) :
                ~FuzzyEquals(arg[k].duration, arg[1].duration, Epsilon))

(***************************************************************************)
(* The lookups of a ParabolicCurvesND, on every object the constructor     *)
(* builds                                                                  *)
(***************************************************************************)
InitNDLookup ==
    /\ \E curvesIn \in NdInputs, endEquals \in BOOLEAN :
          LET r == ParabolicCurvesND(curvesIn, endEquals)
          IN  ~r.failed /\ nd = r.nd
    /\ ramp = None
    /\ curve = None
    /\ op = "ParabolicCurvesND::ParabolicCurvesND"
    /\ arg = None
    /\ pre = None
    /\ ret = None
    /\ aborted = FALSE

Zeros(n) == [i \in 1..n |-> 0]

\* the caller's vectors have any length up to ndof + 1.  A write outside
\* bmaxVect is undefined: the process may end there or go on.
DoNDGetPeaks ==
    /\ ~aborted
    /\ \E lmin, lmax \in 0..(nd.ndof + 1) :
          LET r == ParabolicCurvesND_GetPeaks(nd, Zeros(lmin), Zeros(lmax))
          IN  /\ ret' = r
              /\ arg' = [bminVect |-> Zeros(lmin), bmaxVect |-> Zeros(lmax)]
              /\ aborted' \in (IF r.outOfRange = {} THEN {FALSE} ELSE BOOLEAN)
    /\ op' = "ParabolicCurvesND::GetPeaks"
    /\ UNCHANGED <<ramp, curve, nd, pre>>

NDLookupTimes(n) == (-Epsilon)..(n.duration + Epsilon)

DoNDEvalPos ==
    /\ ~aborted
    /\ \E t \in NDLookupTimes(nd) :
          /\ ret' = ParabolicCurvesND_EvalPos(nd, t)
          /\ arg' = t
    /\ op' = "ParabolicCurvesND::EvalPos"
    /\ UNCHANGED <<ramp, curve, nd, pre, aborted>>

DoNDEvalVel ==
    /\ ~aborted
    /\ \E t \in NDLookupTimes(nd) :
          /\ ret' = ParabolicCurvesND_EvalVel(nd, t)
          /\ arg' = t
    /\ op' = "ParabolicCurvesND::EvalVel"
    /\ UNCHANGED <<ramp, curve, nd, pre, aborted>>

NextNDLookup == DoNDGetPeaks \/ DoNDEvalPos \/ DoNDEvalVel

SpecNDLookup == InitNDLookup /\ [][NextNDLookup]_vars

\* C10: GetPeaks writes no element outside a vector, and afterwards both
\* vectors have exactly ndof entries, entry i holding the bound of curves[i].
C10_PeaksPerAxisInRange ==
    op = "ParabolicCurvesND::GetPeaks" =>
        /\ ret.outOfRange = {}
        /\ Len(ret.bminVect) = nd.ndof
        /\ Len(ret.bmaxVect) = nd.ndof
        /\ \A i \in 1..nd.ndof :
              /\ ret.bminVect[i] = ParabolicCurve_GetPeaks(nd.curves[i]).bmin
              /\ ret.bmaxVect[i] = ParabolicCurve_GetPeaks(nd.curves[i]).bmax

====
